---------------------------- MODULE Spec2Model ----------------------------
(***************************************************************************)
(* Model of src/extract.py: the electoral-roll extraction engine.          *)
(*                                                                         *)
(* Text is a sequence of Unicode code points.  The inputs are drawn from   *)
(* ASCII and the Devanagari block (U+0900..U+097F); the character classes  *)
(* below are Python's re classes restricted to those two ranges.           *)
(* Python's None is the one-element sequence <<-1>> (no text holds a       *)
(* negative code point), so that "" (<<>>) and None stay distinct.         *)
(***************************************************************************)
EXTENDS Integers, Sequences, FiniteSets, Bags, TLC

None == <<-1>>
NoMatch == <<-1>>

(* ------------------------- character classes ------------------------- *)
UPPER == 65..90
LOWER == 97..122
AZ09 == UPPER \cup (48..57)
ALPHA == UPPER \cup LOWER
DEVANAGARI == 2304..2431
\* \w : str.isalnum() or "_"; the Devanagari vowel signs, virama and
\* anusvara (categories Mn/Mc) are not word characters.
WORD == (48..57) \cup UPPER \cup {95} \cup LOWER \cup (2308..2361) \cup {2365, 2384}
          \cup (2392..2401) \cup (2406..2415) \cup (2417..2431)
\* \d : ASCII and Devanagari decimal digits
DIGIT == (48..57) \cup (2406..2415)
\* \s
SPACE == (9..13) \cup (28..32)
\* [^\n] and .
NOTNL == (0..9) \cup (11..2431)

\* str.upper() / str.lower() on one code point
UpperCh(c) == IF c \in LOWER THEN c - 32 ELSE c
LowerCh(c) == IF c \in UPPER THEN c + 32 ELSE c
Upper(s) == [i \in 1..Len(s) |-> UpperCh(s[i])]

\* str.strip()
RECURSIVE LStrip(_)
LStrip(s) == IF s # <<>> /\ Head(s) \in SPACE THEN LStrip(Tail(s)) ELSE s
RECURSIVE RStrip(_)
RStrip(s) ==
    IF s # <<>> /\ s[Len(s)] \in SPACE THEN RStrip(SubSeq(s, 1, Len(s) - 1)) ELSE s
Strip(s) == RStrip(LStrip(s))

\* "sub in s"
Contains(s, sub) ==
    \E i \in 1..(Len(s) - Len(sub) + 1) : SubSeq(s, i, i + Len(sub) - 1) = sub

(* --------------------------- regex matching -------------------------- *)
\* A pattern is a sequence of items: a character class with a greedy
\* repetition {lo,hi} (hi = -1: unbounded), or the word boundary \b.
Cls(S, lo, hi) == [k |-> "c", cls |-> S, lo |-> lo, hi |-> hi]
One(S) == Cls(S, 1, 1)
Opt(S) == Cls(S, 0, 1)
Star(S) == Cls(S, 0, -1)
Plus(S) == Cls(S, 1, -1)
WB == [k |-> "b", cls |-> {}, lo |-> 0, hi |-> 0]
\* a literal, and a literal under re.IGNORECASE
Lit(w) == [i \in 1..Len(w) |-> One({w[i]})]
LitI(w) == [i \in 1..Len(w) |-> One({UpperCh(w[i]), LowerCh(w[i])})]

IsWordAt(s, j) == j \in 1..Len(s) /\ s[j] \in WORD
\* \b at the gap before position i
AtBoundary(s, i) == IsWordAt(s, i - 1) # IsWordAt(s, i)

\* length of the run of S-characters starting at i, at most hi when hi >= 0
RECURSIVE RunLen(_, _, _, _)
RunLen(S, s, i, hi) ==
    IF hi = 0 \/ i > Len(s) \/ s[i] \notin S THEN 0
    ELSE 1 + RunLen(S, s, i + 1, IF hi < 0 THEN hi ELSE hi - 1)

\* Backtracking match of items k.. of re at position i of s: the start
\* positions of items k+1.. followed by the end of the match (exclusive),
\* or NoMatch.  Greedy: the longest repetition is tried first.
RECURSIVE MatchFrom(_, _, _, _)
RECURSIVE TryCount(_, _, _, _, _)
MatchFrom(re, k, s, i) ==
    IF k > Len(re) THEN <<>>
    ELSE IF re[k].k = "b"
         THEN IF AtBoundary(s, i)
              THEN LET r == MatchFrom(re, k + 1, s, i)
                   IN  IF r = NoMatch THEN NoMatch ELSE <<i>> \o r
              ELSE NoMatch
         ELSE TryCount(re, k, s, i, RunLen(re[k].cls, s, i, re[k].hi))
TryCount(re, k, s, i, n) ==
    IF n < re[k].lo THEN NoMatch
    ELSE LET r == MatchFrom(re, k + 1, s, i + n)
         IN  IF r = NoMatch THEN TryCount(re, k, s, i, n - 1) ELSE <<i + n>> \o r

\* re.match at position i: <<start of item 1, ..., start of item n, end>>
MatchAt(re, s, i) ==
    LET r == MatchFrom(re, 1, s, i) IN IF r = NoMatch THEN NoMatch ELSE <<i>> \o r

\* re.search from position i on: the leftmost match
RECURSIVE Search(_, _, _)
Search(re, s, i) ==
    IF i > Len(s) + 1 THEN NoMatch
    ELSE LET r == MatchAt(re, s, i)
         IN  IF r = NoMatch THEN Search(re, s, i + 1) ELSE r

\* the text of items a..b of a match m (a capturing group)
Group(s, m, a, b) == SubSeq(s, m[a], m[b + 1] - 1)

\* re.findall of a pattern whose group is items a..b (no empty matches)
RECURSIVE FindAll(_, _, _, _, _)
FindAll(re, s, i, a, b) ==
    LET m == Search(re, s, i)
    IN  IF m = NoMatch THEN <<>>
        ELSE <<Group(s, m, a, b)>> \o FindAll(re, s, m[Len(re) + 1], a, b)

(* ------------------------- patterns and tables ----------------------- *)
\* r'\b[A-Z0-9]{5,}\b'
EPIC_REGEX == <<WB, Cls(AZ09, 5, -1), WB>>
\* r'\b([1-9][0-9]?)\b'
AGE_REGEX == <<WB, One(49..57), Opt(48..57), WB>>

G_M == <<77>>                                     \* "M"
G_F == <<70>>                                     \* "F"
G_PURUSH == <<2346, 2369, 2352, 2369, 2359>>      \* purush (male)
G_MAHILA == <<2350, 2361, 2367, 2354, 2366>>      \* mahila (female)
G_STRI == <<2360, 2381, 2340, 2381, 2352, 2368>>  \* stri (female)
\* r'\b(M|F|m|f|purush|mahila|stri)\b', re.IGNORECASE: the alternatives in
\* the order the pattern lists them
GENDER_REGEX ==
    << <<WB>> \o LitI(G_M) \o <<WB>>,
       <<WB>> \o LitI(G_F) \o <<WB>>,
       <<WB>> \o LitI(<<109>>) \o <<WB>>,
       <<WB>> \o LitI(<<102>>) \o <<WB>>,
       <<WB>> \o LitI(G_PURUSH) \o <<WB>>,
       <<WB>> \o LitI(G_MAHILA) \o <<WB>>,
       <<WB>> \o LitI(G_STRI) \o <<WB>> >>

FATHER == <<70, 97, 116, 104, 101, 114>>          \* "Father"
HUSBAND == <<72, 117, 115, 98, 97, 110, 100>>     \* "Husband"
K_PITA == <<2346, 2367, 2340, 2366>>              \* pita (father)
K_PATI == <<2346, 2340, 2367>>                    \* pati (husband)
\* the dict in insertion order, as (key, value) pairs
RELATION_TYPE_MAP ==
    << <<<<83, 47, 79>>, FATHER>>,                     \* "S/O"
       <<<<83, 79, 78, 32, 79, 70>>, FATHER>>,         \* "SON OF"
       <<<<70, 65, 84, 72, 69, 82>>, FATHER>>,         \* "FATHER"
       <<<<87, 47, 79>>, HUSBAND>>,                    \* "W/O"
       <<<<87, 73, 70, 69, 32, 79, 70>>, HUSBAND>>,    \* "WIFE OF"
       <<<<72, 85, 83, 66, 65, 78, 68>>, HUSBAND>>,    \* "HUSBAND"
       <<K_PITA, FATHER>>,
       <<K_PATI, HUSBAND>> >>

\* re.search over an alternation: at each start position the alternatives
\* are tried in order; <<index of the alternative>> \o its match
RECURSIVE FirstAlt(_, _, _, _)
FirstAlt(alts, n, s, i) ==
    IF n > Len(alts) THEN NoMatch
    ELSE LET r == MatchAt(alts[n], s, i)
         IN  IF r = NoMatch THEN FirstAlt(alts, n + 1, s, i) ELSE <<n>> \o r
RECURSIVE SearchAlt(_, _, _)
SearchAlt(alts, s, i) ==
    IF i > Len(s) + 1 THEN NoMatch
    ELSE LET r == FirstAlt(alts, 1, s, i)
         IN  IF r = NoMatch THEN SearchAlt(alts, s, i + 1) ELSE r

\* int() of a string of ASCII digits
RECURSIVE ToInt(_)
ToInt(a) ==
    IF a = <<>> THEN 0 ELSE 10 * ToInt(SubSeq(a, 1, Len(a) - 1)) + (a[Len(a)] - 48)

(* ------------------------------ utilities ---------------------------- *)
\* mutant: the token is compared without being upper-cased
normalize_gender_cased(g) ==
    IF g = None \/ g = <<>> THEN None
    ELSE LET u == Strip(g)
         IN  IF u \in {G_M, G_PURUSH} THEN G_M
             ELSE IF u \in {G_F, G_MAHILA, G_STRI} THEN G_F
             ELSE u

normalize_gender(g) ==
    IF g = None \/ g = <<>> THEN None
    ELSE LET u == Upper(Strip(g))
         IN  IF u \in {G_M, G_PURUSH} THEN G_M
             ELSE IF u \in {G_F, G_MAHILA, G_STRI} THEN G_F
             ELSE u

(* --------------------------- parse_voter_block ----------------------- *)
\* re.sub(r'([A-Z0-9])\s+([A-Z0-9])', r'\1\2', text)
DESPLIT_REGEX == <<One(AZ09), Plus(SPACE), One(AZ09)>>
RECURSIVE SubDesplit(_, _)
SubDesplit(s, i) ==
    LET m == Search(DESPLIT_REGEX, s, i)
    IN  IF m = NoMatch THEN SubSeq(s, i, Len(s))
        ELSE SubSeq(s, i, m[1] - 1) \o Group(s, m, 1, 1) \o Group(s, m, 3, 3)
               \o SubDesplit(s, m[4])
Desplit(text) == SubDesplit(text, 1)

ExtractEpic(norm) ==
    LET m == Search(EPIC_REGEX, norm, 1)
    IN  IF m = NoMatch THEN None ELSE Group(norm, m, 1, 3)

ExtractGender(norm) ==
    LET m == SearchAlt(GENDER_REGEX, norm, 1)
    IN  IF m = NoMatch THEN None
        ELSE normalize_gender(SubSeq(norm, m[2], m[Len(m)] - 1))

\* the first candidate a with 17 < int(a) < 121
RECURSIVE FirstAge(_)
FirstAge(cands) ==
    IF cands = <<>> THEN None
    ELSE IF 17 < ToInt(Head(cands)) /\ ToInt(Head(cands)) < 121 THEN Head(cands)
    ELSE FirstAge(Tail(cands))
ExtractAge(norm) == FirstAge(FindAll(AGE_REGEX, norm, 1, 2, 3))

\* re.match(r'^\s*(\d+)', norm)
ExtractSerial(norm) ==
    LET m == MatchAt(<<Star(SPACE), Plus(DIGIT)>>, norm, 1)
    IN  IF m = NoMatch THEN None ELSE Group(norm, m, 2, 2)

\* rf'{re.escape(key)}\s+([A-Za-z\u0900-\u097F]+)', re.IGNORECASE
RelationNameOf(key, norm) ==
    LET re == LitI(key) \o <<Plus(SPACE), Plus(ALPHA \cup DEVANAGARI)>>
        m == Search(re, norm, 1)
    IN  IF m = NoMatch THEN None ELSE Group(norm, m, Len(re), Len(re))

\* the loop over RELATION_TYPE_MAP.items(): <<relation_type, relation_name>>
RECURSIVE RelationLoop(_, _)
RelationLoop(n, norm) ==
    IF n > Len(RELATION_TYPE_MAP) THEN <<None, None>>
    ELSE IF Contains(Upper(norm), Upper(RELATION_TYPE_MAP[n][1]))
         THEN <<RELATION_TYPE_MAP[n][2], RelationNameOf(RELATION_TYPE_MAP[n][1], norm)>>
         ELSE RelationLoop(n + 1, norm)
ExtractRelation(norm) ==
    LET r == RelationLoop(1, norm)
    IN  IF r[1] # None THEN r
        ELSE IF Contains(norm, K_PITA) THEN <<FATHER, r[2]>>
        ELSE IF Contains(norm, K_PATI) THEN <<HUSBAND, r[2]>>
        ELSE r

\* re.findall(r'\b([A-Z][a-z]+)\b', norm) and re.findall(r'[\u0900-\u097F]+', norm)
EnNames(norm) == FindAll(<<WB, One(UPPER), Plus(LOWER), WB>>, norm, 1, 2, 3)
HiNames(norm) == FindAll(<<Plus(DEVANAGARI)>>, norm, 1, 1, 1)

\* r'(?:H\.?\s*No\.?:?\s*|makan\s*sankhya\s*[::]?\s*)(\w+)', re.IGNORECASE
HOUSE_REGEX ==
    << LitI(<<72>>) \o <<Opt({46}), Star(SPACE)>> \o LitI(<<78, 111>>)
         \o <<Opt({46}), Opt({58}), Star(SPACE), Plus(WORD)>>,
       LitI(<<2350, 2325, 2366, 2344>>) \o <<Star(SPACE)>>
         \o LitI(<<2360, 2326, 2306, 2351, 2366>>)
         \o <<Star(SPACE), Opt({58, 65306}), Star(SPACE), Plus(WORD)>> >>
ExtractHouse(norm) ==
    LET m == SearchAlt(HOUSE_REGEX, norm, 1)
    IN  IF m = NoMatch THEN None ELSE SubSeq(norm, m[Len(m) - 1], m[Len(m)] - 1)

\* "Build voter's name"
VoterName(norm) ==
    LET en == EnNames(norm)
        hi == HiNames(norm)
    IN  IF Len(en) >= 2 THEN en[1] \o <<32>> \o en[2]
        ELSE IF Len(hi) >= 2 THEN hi[1] \o <<32>> \o hi[2]
        ELSE IF Len(en) = 1 THEN en[1]
        ELSE IF Len(hi) = 1 THEN hi[1]
        ELSE None

\* os.path.basename
RECURSIVE Basename(_)
Basename(path) ==
    IF \E i \in 1..Len(path) : path[i] = 47 THEN Basename(Tail(path)) ELSE path

\* header_meta.get(k, '') on a header that may be the empty dict
NoHeader == [state |-> None, vname |-> <<>>, vno |-> <<>>, bname |-> <<>>, bno |-> <<>>]

parse_voter_block(text, header_meta, source_pdf) ==
    LET norm == Desplit(text)
        rel == ExtractRelation(norm)
    IN  [state |-> header_meta.state,
         vidhan |-> Strip(header_meta.vname \o <<32>> \o header_meta.vno),
         booth |-> Strip(header_meta.bname \o <<32>> \o header_meta.bno),
         serial |-> ExtractSerial(norm),
         name |-> VoterName(norm),
         epic |-> ExtractEpic(norm),
         relation_name |-> rel[2],
         relation_type |-> rel[1],
         house |-> ExtractHouse(norm),
         age |-> ExtractAge(norm),
         gender |-> ExtractGender(norm),
         source |-> Basename(source_pdf)]

(* ------------------------ extract_header_metadata -------------------- *)
\* dict.get(key, default) on a dict given as (key, value) pairs
RECURSIVE DictGet(_, _, _)
DictGet(dict, key, default) ==
    IF dict = <<>> THEN default
    ELSE IF Head(dict)[1] = key THEN Head(dict)[2]
    ELSE DictGet(Tail(dict), key, default)

ST_CODE_TO_STATE == << <<<<83, 48, 52>>, <<66, 105, 104, 97, 114>>>> >>  \* "S04": "Bihar"
AC_NO_TO_NAME ==
    << <<<<50, 52, 48>>, <<83, 105, 107, 97, 110, 100, 114, 97>>>> >>    \* "240": "Sikandra"

\* r'\b(S\d{2})\b', re.IGNORECASE
ST_CODE_REGEX == <<WB, One({83, 115}), Cls(DIGIT, 2, 2), WB>>
\* r'(\d+)\s*-\s*([^\n]+)'
VIDHAN_REGEX == <<Plus(DIGIT), Star(SPACE), One({45}), Star(SPACE), Plus(NOTNL)>>
\* r'bhag\s*[:\-]?\s*(\d+)'
BOOTH_NO_REGEX ==
    Lit(<<2349, 2366, 2327>>) \o <<Star(SPACE), Opt({58, 45}), Star(SPACE), Plus(DIGIT)>>
\* r'\d+\s*-\s*(.+)'
BOOTH_NAME_REGEX == <<Plus(DIGIT), Star(SPACE), One({45}), Star(SPACE), Plus(NOTNL)>>
K_MATDAN == <<2350, 2340, 2342, 2366, 2344>>          \* matdan (polling)
K_KENDRA == <<2325, 2375, 2306, 2342, 2381, 2352>>    \* kendra (centre)

UNKNOWN_STATE == <<85, 110, 107, 110, 111, 119, 110, 83, 116, 97, 116, 101>>
UNKNOWN_VIDHAN ==
    <<85, 110, 107, 110, 111, 119, 110, 86, 105, 100, 104, 97, 110, 83, 97, 98, 104, 97>>
UNKNOWN_BOOTH == <<85, 110, 107, 110, 111, 119, 110, 66, 111, 111, 116, 104>>

\* str.splitlines()
LINEBREAK == {10, 11, 12, 13, 28, 29, 30}
RECURSIVE SplitFrom(_, _, _)
SplitFrom(s, i, cur) ==
    IF i > Len(s) THEN (IF cur = <<>> THEN <<>> ELSE <<cur>>)
    ELSE IF s[i] \in LINEBREAK
         THEN <<cur>> \o SplitFrom(s, IF s[i] = 13 /\ i < Len(s) /\ s[i + 1] = 10
                                      THEN i + 2 ELSE i + 1, <<>>)
         ELSE SplitFrom(s, i + 1, Append(cur, s[i]))
Splitlines(s) == SplitFrom(s, 1, <<>>)

\* page.extract_text() or ""
TextOr(t) == IF t = None THEN <<>> ELSE t
NonEmpty(l) == l # <<>>
\* [l.strip() for l in text.splitlines() if l.strip()]
StripLines(text) ==
    LET raw == Splitlines(text)
    IN  SelectSeq([i \in 1..Len(raw) |-> Strip(raw[i])], NonEmpty)

\* index of the first line the pattern is found in, 0 if none
FirstLine(re, ls) ==
    LET hit == {i \in 1..Len(ls) : Search(re, ls[i], 1) # NoMatch}
    IN  IF hit = {} THEN 0 ELSE CHOOSE i \in hit : \A j \in hit : i <= j

\* "# ST_CODE"
ResolveState(ls) ==
    LET i == FirstLine(ST_CODE_REGEX, ls)
    IN  IF i = 0 THEN <<>>
        ELSE DictGet(ST_CODE_TO_STATE, Group(ls[i], Search(ST_CODE_REGEX, ls[i], 1), 2, 3),
                     <<>>)

\* "# Vidhan Sabha (AC) number & name": <<vidhan_number, vidhan_name>>
ResolveVidhan(ls) ==
    LET i == FirstLine(VIDHAN_REGEX, ls)
    IN  IF i = 0 THEN <<<<>>, <<>>>>
        ELSE LET m == Search(VIDHAN_REGEX, ls[i], 1)
                 no == Strip(Group(ls[i], m, 1, 1))
             IN  <<no, DictGet(AC_NO_TO_NAME, no, Strip(Group(ls[i], m, 5, 5)))>>

\* "# Booth number"
ResolveBoothNumber(ls) ==
    LET i == FirstLine(BOOTH_NO_REGEX, ls)
    IN  IF i = 0 THEN <<>>
        ELSE LET m == Search(BOOTH_NO_REGEX, ls[i], 1)
             IN  Strip(Group(ls[i], m, Len(BOOTH_NO_REGEX), Len(BOOTH_NO_REGEX)))

\* the inner loop "for nxt in lines[i : i + 3]" from line j on
RECURSIVE BoothNameNear(_, _, _)
BoothNameNear(ls, j, last) ==
    IF j > last \/ j > Len(ls) THEN <<>>
    ELSE LET m == Search(BOOTH_NAME_REGEX, ls[j], 1)
         IN  IF m # NoMatch THEN Strip(Group(ls[j], m, 5, 5))
             ELSE BoothNameNear(ls, j + 1, last)
\* "# Booth name (heuristic near matdan kendra)": the outer loop from line i on
RECURSIVE BoothNameFrom(_, _)
BoothNameFrom(ls, i) ==
    IF i > Len(ls) THEN <<>>
    ELSE IF Contains(ls[i], K_MATDAN) \/ Contains(ls[i], K_KENDRA)
         THEN LET b == BoothNameNear(ls, i, i + 2)
              IN  IF b # <<>> THEN b ELSE BoothNameFrom(ls, i + 1)
         ELSE BoothNameFrom(ls, i + 1)
ResolveBoothName(ls) == BoothNameFrom(ls, 1)

\* "# Fallbacks": if not x: x = literal
Fallback(x, literal) == IF x = <<>> THEN literal ELSE x

HeaderDict(state_name, vidhan_name, vidhan_number, booth_name, booth_number) ==
    [state |-> state_name, vname |-> vidhan_name, vno |-> vidhan_number,
     bname |-> booth_name, bno |-> booth_number]

\* mutant: without a constituency line the resolver gives up on the rest
extract_header_metadata_bail(first_page) ==
    LET ls == StripLines(TextOr(first_page))
        v == ResolveVidhan(ls)
    IN  IF v[1] = <<>>
        THEN HeaderDict(UNKNOWN_STATE, UNKNOWN_VIDHAN, <<>>, UNKNOWN_BOOTH, <<>>)
        ELSE HeaderDict(Fallback(ResolveState(ls), UNKNOWN_STATE),
                        Fallback(v[2], UNKNOWN_VIDHAN),
                        Fallback(v[1], <<>>),
                        Fallback(ResolveBoothName(ls), UNKNOWN_BOOTH),
                        Fallback(ResolveBoothNumber(ls), <<>>))

extract_header_metadata(first_page) ==
    LET ls == StripLines(TextOr(first_page))
        v == ResolveVidhan(ls)
    IN  HeaderDict(Fallback(ResolveState(ls), UNKNOWN_STATE),
                   Fallback(v[2], UNKNOWN_VIDHAN),
                   Fallback(v[1], <<>>),
                   Fallback(ResolveBoothName(ls), UNKNOWN_BOOTH),
                   Fallback(ResolveBoothNumber(ls), <<>>))

(* --------------------------- extract_from_pdf ------------------------ *)
\* "if EPIC_REGEX.search(line)"
IsAnchorLine(line) == Search(EPIC_REGEX, line, 1) # NoMatch

\* mutant: a non-anchor line met before any anchor line opens a block
AccumLineNoGuard(acc, line) ==
    IF IsAnchorLine(line) THEN Append(acc, line)
    ELSE IF acc # <<>> THEN [acc EXCEPT ![Len(acc)] = @ \o <<32>> \o line]
    ELSE <<line>>
\* mutant: the concatenation is computed but not stored back
AccumLineDropTail(acc, line) ==
    IF IsAnchorLine(line) THEN Append(acc, line) ELSE acc

\* the body of "for line in lines"
AccumLine(acc, line) ==
    IF IsAnchorLine(line) THEN Append(acc, line)
    ELSE IF acc # <<>> THEN [acc EXCEPT ![Len(acc)] = @ \o <<32>> \o line]
    ELSE acc

\* mutant: block_accum is set up once, before the page loop
PageBlockAccumKept(prev) == prev
\* "block_accum = []" at the top of each page; prev is the list the
\* previous page left behind
PageBlockAccum(prev) == <<>>

\* mutant: only a row with an identifier is kept
RowKeptIfEpic(r) == r.epic # None
\* "if row:" -- a dict with twelve keys is always true
RowKept(r) == TRUE

\* "if not txt.strip(): continue"
IsBlankPage(page) == Strip(TextOr(page)) = <<>>

(* ------------------------------- inputs ------------------------------ *)
MaxPages == 2
MaxDocLines == 3

LINE_A == <<49, 50, 32, 65, 66, 67, 68, 69, 49, 50, 51, 52, 53>>  \* "12 ABCDE12345"
LINE_B == <<88, 89, 90, 65, 66, 54, 55, 56, 57, 48>>              \* "XYZAB67890"
LINE_N == <<32, 82, 97, 109, 32, 75, 117, 109, 97, 114, 32>>      \* " Ram Kumar "
LINE_W == <<32>>                                                  \* " "
LineUniverse == {LINE_A, LINE_B, LINE_N, LINE_W}

\* the page texts of exactly k lines: the lines joined by "\n"; the page
\* without text is None
RECURSIVE PageTexts(_)
PageTexts(k) ==
    IF k = 0 THEN {None}
    ELSE IF k = 1 THEN LineUniverse
    ELSE {t \o <<10>> \o l : t \in PageTexts(k - 1), l \in LineUniverse}
\* the page sequences of at most p pages holding at most k lines in all
RECURSIVE PageSeqs(_, _)
PageSeqs(p, k) ==
    IF p = 0 THEN {<<>>}
    ELSE {<<>>} \cup UNION {{<<t>> \o d : t \in PageTexts(j), d \in PageSeqs(p - 1, k - j)}
                            : j \in 0..k}
PDF_PATH == <<105, 110, 47, 97, 46, 112, 100, 102>>               \* "in/a.pdf"
Docs == {[path |-> PDF_PATH, pages |-> ps] : ps \in PageSeqs(MaxPages, MaxDocLines)}

(* ------------------------------- state ------------------------------- *)
VARIABLES
    pc,           \* control location
    pdf,          \* the open document: its path and its pages' texts
    header_meta,  \* extract_from_pdf: header_meta
    page_no,      \* index of the page of "for page in pdf.pages"
    lines,        \* the stripped non-empty lines of the current page
    line_no,      \* index of the line of "for line in lines"
    block_accum,  \* extract_from_pdf: block_accum
    blk_no,       \* index of the block of "for blk in block_accum"
    rows,         \* extract_from_pdf: rows
    docs,         \* two documents processed side by side
    wpc,          \* per document: the control location of its worker
    hdr,          \* per document: header_meta
    todo,         \* the pages <<d, p>> not yet segmented
    acc,          \* per document: block_accum
    pend,         \* the blocks segmented and not yet parsed
    out           \* per document: the records emitted, as a bag

seqv == <<pdf, header_meta, page_no, lines, line_no, block_accum, blk_no, rows>>
parv == <<docs, wpc, hdr, todo, acc, pend, out>>
vars == <<pc, seqv, parv>>

\* pdfplumber.open(pdf_path) on a document of the set D
InitOn(D) ==
    /\ pdf \in D
    /\ pc = "header"
    /\ header_meta = NoHeader
    /\ page_no = 1
    /\ lines = <<>>
    /\ line_no = 1
    /\ block_accum = <<>>
    /\ blk_no = 1
    /\ rows = <<>>
    /\ docs = <<>> /\ wpc = <<>> /\ hdr = <<>> /\ todo = {} /\ acc = <<>>
    /\ pend = {} /\ out = <<>>

Init == InitOn(Docs)

\* "header_meta = {}; if pdf.pages: header_meta = extract_header_metadata(pdf.pages[0])"
ResolveHeader ==
    /\ pc = "header"
    /\ header_meta' = IF pdf.pages # <<>> THEN extract_header_metadata(pdf.pages[1])
                      ELSE NoHeader
    /\ pc' = "page"
    /\ UNCHANGED <<pdf, page_no, lines, line_no, block_accum, blk_no, rows, parv>>

\* a page without text: "continue"
SkipBlankPage ==
    /\ pc = "page"
    /\ page_no <= Len(pdf.pages)
    /\ IsBlankPage(pdf.pages[page_no])
    /\ page_no' = page_no + 1
    /\ UNCHANGED <<pc, pdf, header_meta, lines, line_no, block_accum, blk_no, rows, parv>>

\* a page with text: its lines, and an empty block_accum
StartPage ==
    /\ pc = "page"
    /\ page_no <= Len(pdf.pages)
    /\ ~IsBlankPage(pdf.pages[page_no])
    /\ lines' = StripLines(TextOr(pdf.pages[page_no]))
    /\ block_accum' = PageBlockAccum(block_accum)
    /\ line_no' = 1
    /\ pc' = "line"
    /\ UNCHANGED <<pdf, header_meta, page_no, blk_no, rows, parv>>

\* one iteration of "for line in lines"
ScanLine ==
    /\ pc = "line"
    /\ line_no <= Len(lines)
    /\ block_accum' = AccumLine(block_accum, lines[line_no])
    /\ line_no' = line_no + 1
    /\ UNCHANGED <<pc, pdf, header_meta, page_no, lines, blk_no, rows, parv>>

\* the lines are exhausted: on to "for blk in block_accum"
EndLines ==
    /\ pc = "line"
    /\ line_no > Len(lines)
    /\ blk_no' = 1
    /\ pc' = "block"
    /\ UNCHANGED <<pdf, header_meta, page_no, lines, line_no, block_accum, rows, parv>>

\* one iteration of "for blk in block_accum"
ParseBlock ==
    /\ pc = "block"
    /\ blk_no <= Len(block_accum)
    /\ LET r == parse_voter_block(block_accum[blk_no], header_meta, pdf.path)
       IN  rows' = IF RowKept(r) THEN Append(rows, r) ELSE rows
    /\ blk_no' = blk_no + 1
    /\ UNCHANGED <<pc, pdf, header_meta, page_no, lines, line_no, block_accum, parv>>

\* the blocks are exhausted: the next page
EndBlocks ==
    /\ pc = "block"
    /\ blk_no > Len(block_accum)
    /\ page_no' = page_no + 1
    /\ pc' = "page"
    /\ UNCHANGED <<pdf, header_meta, lines, line_no, block_accum, blk_no, rows, parv>>

\* "return rows"
Return ==
    /\ pc = "page"
    /\ page_no > Len(pdf.pages)
    /\ pc' = "done"
    /\ UNCHANGED <<pdf, header_meta, page_no, lines, line_no, block_accum, blk_no, rows, parv>>

Next ==
    \/ ResolveHeader
    \/ SkipBlankPage
    \/ StartPage
    \/ ScanLine
    \/ EndLines
    \/ ParseBlock
    \/ EndBlocks
    \/ Return

Spec == Init /\ [][Next]_vars
(* -------------------- documents of one voter entry ------------------- *)
\* One page: an anchor line, then at most MaxFrags further lines of the
\* entry.  The anchor line is an identifier alone, a serial and an
\* identifier, or a serial and an identifier split by one space.
MaxFrags == 2

SERIAL == <<49, 50>>                                    \* "12"
EPIC == <<65, 66, 67, 68, 69, 49, 50, 51, 52, 53>>      \* "ABCDE12345"
\* the identifier with one space inserted after its k-th character
SplitEpic(k) == SubSeq(EPIC, 1, k) \o <<32>> \o SubSeq(EPIC, k + 1, Len(EPIC))
SplitLine(k) == SERIAL \o <<32>> \o SplitEpic(k)
AnchorLines == {LINE_A, LINE_B} \cup {SplitLine(k) : k \in 1..(Len(EPIC) - 1)}

F_NAME == <<82, 97, 109, 32, 75, 117, 109, 97, 114>>            \* "Ram Kumar"
F_SO == <<83, 47, 79, 32, 83, 104, 121, 97, 109>>               \* "S/O Shyam"
F_PITA == <<2346, 2367, 2340, 2366, 32, 2352, 2366, 2350>>      \* pita Ram
F_WO == <<87, 47, 79, 32, 83, 105, 116, 97>>                    \* "W/O Sita"
F_SONOF == <<83, 79, 78, 32, 79, 70, 32, 82, 65, 77>>           \* "SON OF RAM"
F_AGE45 == <<65, 103, 101, 58, 32, 52, 53, 32, 109>>            \* "Age: 45 m"
F_AGE105 == <<65, 103, 101, 58, 32, 49, 48, 53>>                \* "Age: 105"
\* umr: 16 ling: purush  (age 16, gender male)
F_UMR16 == <<2313, 2350, 2381, 2352, 58, 32, 49, 54, 32, 2354, 2367, 2306, 2327, 58, 32,
             2346, 2369, 2352, 2369, 2359>>
F_MAHILA == G_MAHILA                                            \* mahila
EntryLines == {F_NAME, F_SO, F_PITA, F_WO, F_SONOF, F_AGE45, F_AGE105, F_UMR16, F_MAHILA}

\* the texts of at most n entry lines, each preceded by "\n"
RECURSIVE EntryTails(_)
EntryTails(n) ==
    IF n = 0 THEN {<<>>}
    ELSE {<<>>} \cup {<<10>> \o l \o t : l \in EntryLines, t \in EntryTails(n - 1)}
EntryDocs ==
    {[path |-> PDF_PATH, pages |-> <<a \o t>>] : a \in AnchorLines, t \in EntryTails(MaxFrags)}

InitEntry == InitOn(EntryDocs)
\* the steps a one-page document with text takes
NextOnePage ==
    \/ ResolveHeader
    \/ StartPage
    \/ ScanLine
    \/ EndLines
    \/ ParseBlock
    \/ EndBlocks
    \/ Return
SpecEntry == InitEntry /\ [][NextOnePage]_vars

(* ---------------------- documents of one header page ----------------- *)
\* One page of at most MaxHeaderLines header lines.
MaxHeaderLines == 3

H_STATE == <<66, 73, 72, 65, 82, 32, 83, 48, 52>>               \* "BIHAR S04"
H_STATE2 == <<115, 48, 53>>                                     \* "s05"
H_VIDHAN == <<49, 50, 32, 45, 32, 74, 97, 109, 117, 105>>       \* "12 - Jamui"
H_BOOTHNO == <<2349, 2366, 2327, 58, 32, 55>>                   \* bhag: 7
\* matdan kendra (polling centre)
H_KENDRA == <<2350, 2340, 2342, 2366, 2344, 32, 2325, 2375, 2306, 2342, 2381, 2352>>
H_BOOTH == <<53, 32, 45, 32, 83, 99, 104, 111, 111, 108>>       \* "5 - School"
H_ROLL == <<82, 111, 108, 108, 32, 50, 48, 50, 52>>             \* "Roll 2024"
HeaderLines == {H_STATE, H_STATE2, H_VIDHAN, H_BOOTHNO, H_KENDRA, H_BOOTH, H_ROLL}

RECURSIVE HeaderTexts(_)
HeaderTexts(n) ==
    IF n = 1 THEN HeaderLines
    ELSE HeaderLines \cup {l \o <<10>> \o t : l \in HeaderLines, t \in HeaderTexts(n - 1)}
HeaderDocs == {[path |-> PDF_PATH, pages |-> <<t>>] : t \in HeaderTexts(MaxHeaderLines)}

InitHeader == InitOn(HeaderDocs)
SpecHeader == InitHeader /\ [][NextOnePage]_vars

(* ------------------- extract_from_pdf as a function ------------------ *)
\* "for line in lines" on one page
RECURSIVE ScanLines(_, _)
ScanLines(a, ls) == IF ls = <<>> THEN a ELSE ScanLines(AccumLine(a, Head(ls)), Tail(ls))

\* "for blk in block_accum": the rows kept
RECURSIVE BlockRows(_, _, _)
BlockRows(bs, h, path) ==
    IF bs = <<>> THEN <<>>
    ELSE LET r == parse_voter_block(Head(bs), h, path)
         IN  (IF RowKept(r) THEN <<r>> ELSE <<>>) \o BlockRows(Tail(bs), h, path)

\* "for page in pdf.pages" from page p on, a the block_accum left behind
RECURSIVE PagesLoop(_, _, _, _)
PagesLoop(d, h, p, a) ==
    IF p > Len(d.pages) THEN <<>>
    ELSE IF IsBlankPage(d.pages[p]) THEN PagesLoop(d, h, p + 1, a)
    ELSE LET b == ScanLines(PageBlockAccum(a), StripLines(TextOr(d.pages[p])))
         IN  BlockRows(b, h, d.path) \o PagesLoop(d, h, p + 1, b)

HeaderOf(d) == IF d.pages # <<>> THEN extract_header_metadata(d.pages[1]) ELSE NoHeader
extract_from_pdf(d) == PagesLoop(d, HeaderOf(d), 1, <<>>)

(* ------------------- two documents, pages in any order --------------- *)
\* The steps of extract_from_pdf for two documents A and B, taken in any
\* interleaving: a document's header first, then its pages in any order,
\* and the blocks of the segmented pages in any order.
MaxParPages == 2

\* "S04" / "12 ABCDE12345" / " Ram Kumar " / "XYZAB67890"
PAGE_A == <<83, 48, 52, 10>> \o LINE_A \o <<10>> \o LINE_N \o <<10>> \o LINE_B
\* "Sita" / "XYZAB67890"
PAGE_B == <<83, 105, 116, 97, 10>> \o LINE_B
RECURSIVE ParPageSeqs(_)
ParPageSeqs(n) ==
    IF n = 0 THEN {<<>>}
    ELSE {<<>>} \cup {<<t>> \o d : t \in {PAGE_A, PAGE_B, None}, d \in ParPageSeqs(n - 1)}
PDF_PATH_B == <<105, 110, 47, 98, 46, 112, 100, 102>>             \* "in/b.pdf"

InitPar ==
    /\ pc = "par"
    /\ pdf = [path |-> <<>>, pages |-> <<>>]
    /\ header_meta = NoHeader
    /\ page_no = 1 /\ lines = <<>> /\ line_no = 1
    /\ block_accum = <<>> /\ blk_no = 1 /\ rows = <<>>
    /\ docs \in {<<[path |-> PDF_PATH, pages |-> a], [path |-> PDF_PATH_B, pages |-> b]>> :
                   a \in ParPageSeqs(MaxParPages), b \in ParPageSeqs(1)}
    /\ wpc = <<"header", "header">>
    /\ hdr = <<NoHeader, NoHeader>>
    /\ todo = {}
    /\ acc = <<<<>>, <<>>>>
    /\ pend = {}
    /\ out = <<EmptyBag, EmptyBag>>

\* document d: "header_meta = ..." before any of its pages
PResolveHeader(d) ==
    /\ wpc[d] = "header"
    /\ hdr' = [hdr EXCEPT ![d] = HeaderOf(docs[d])]
    /\ todo' = todo \cup {<<d, p>> : p \in 1..Len(docs[d].pages)}
    /\ wpc' = [wpc EXCEPT ![d] = "pages"]
    /\ UNCHANGED <<pc, seqv, docs, acc, pend, out>>

\* document d: the body of "for page in pdf.pages" for page p, up to the
\* block loop
PSegmentPage(d, p) ==
    /\ wpc[d] = "pages"
    /\ <<d, p>> \in todo
    /\ todo' = todo \ {<<d, p>>}
    /\ IF IsBlankPage(docs[d].pages[p])
       THEN UNCHANGED <<acc, pend>>
       ELSE LET b == ScanLines(PageBlockAccum(acc[d]), StripLines(TextOr(docs[d].pages[p])))
            IN  /\ acc' = [acc EXCEPT ![d] = b]
                /\ pend' = pend \cup {[d |-> d, p |-> p, k |-> k, blk |-> b[k]] :
                                        k \in 1..Len(b)}
    /\ UNCHANGED <<pc, seqv, docs, wpc, hdr, out>>

\* one iteration of "for blk in block_accum" for a pending block
PParseBlock(b) ==
    /\ b \in pend
    /\ pend' = pend \ {b}
    /\ LET r == parse_voter_block(b.blk, hdr[b.d], docs[b.d].path)
       IN  out' = IF RowKept(r) THEN [out EXCEPT ![b.d] = @ (+) SetToBag({r})] ELSE out
    /\ UNCHANGED <<pc, seqv, docs, wpc, hdr, todo, acc>>

\* document d: "return rows"
PReturn(d) ==
    /\ wpc[d] = "pages"
    /\ \A t \in todo : t[1] # d
    /\ \A b \in pend : b.d # d
    /\ wpc' = [wpc EXCEPT ![d] = "done"]
    /\ UNCHANGED <<pc, seqv, docs, hdr, todo, acc, pend, out>>

NextPar ==
    \/ \E d \in 1..2 : PResolveHeader(d)
    \/ \E d \in 1..2 : \E p \in 1..Len(docs[d].pages) : PSegmentPage(d, p)
    \/ \E b \in pend : PParseBlock(b)
    \/ \E d \in 1..2 : PReturn(d)
SpecPar == InitPar /\ [][NextPar]_vars

(* ===================== properties of extract_from_pdf ================= *)
\* lines joined by single spaces
RECURSIVE Join(_)
Join(ls) ==
    IF ls = <<>> THEN <<>>
    ELSE IF Len(ls) = 1 THEN ls[1]
    ELSE ls[1] \o <<32>> \o Join(Tail(ls))

\* the least index >= i of a line of ls the test holds of, Len(ls) + 1 if none
NextIdx(ls, i, Test(_)) ==
    LET hit == {j \in i..Len(ls) : Test(ls[j])}
    IN  IF hit = {} THEN Len(ls) + 1 ELSE CHOOSE j \in hit : \A h \in hit : j <= h
NumAnchors(ls) == Cardinality({j \in 1..Len(ls) : IsAnchorLine(ls[j])})

\* what segmentation is to yield: one block per anchor line, holding the
\* anchor line and the non-anchor lines up to the next anchor line
RECURSIVE ExpectedBlocksFrom(_, _)
ExpectedBlocksFrom(ls, i) ==
    LET a == NextIdx(ls, i, IsAnchorLine)
    IN  IF a > Len(ls) THEN <<>>
        ELSE LET b == NextIdx(ls, a + 1, IsAnchorLine)
             IN  <<Join(SubSeq(ls, a, b - 1))>> \o ExpectedBlocksFrom(ls, b)
ExpectedBlocks(ls) == ExpectedBlocksFrom(ls, 1)

PageLines(p) == StripLines(TextOr(pdf.pages[p]))
\* the records the pages p.. are to yield under header h
RECURSIVE ExpectedRowsFrom(_, _)
ExpectedRowsFrom(p, h) ==
    IF p > Len(pdf.pages) THEN <<>>
    ELSE LET bs == ExpectedBlocks(PageLines(p))
         IN  [k \in 1..Len(bs) |-> parse_voter_block(bs[k], h, pdf.path)]
               \o ExpectedRowsFrom(p + 1, h)

\* the anchor rule of the design text: 1-4 digits, whitespace, then a
\* token of 2+ capitals, alphanumerics/hyphen/slash, and 3+ trailing digits
SERIAL_ID_REGEX ==
    <<Cls(DIGIT, 1, 4), Plus(SPACE), Cls(UPPER, 2, -1),
      Star(AZ09 \cup LOWER \cup {45, 47}), Cls(48..57, 3, -1)>>
StartsWithSerialId(line) == MatchAt(SERIAL_ID_REGEX, line, 1) # NoMatch

\* block blk begins with line l
BeginsWith(blk, l) ==
    /\ Len(blk) >= Len(l)
    /\ SubSeq(blk, 1, Len(l)) = l
    /\ (Len(blk) > Len(l) => blk[Len(l) + 1] = 32)

\* the records emitted so far are as many as the blocks parsed so far
RowsSoFar(IsStart(_)) ==
    Len(rows) =
        (IF pc = "header" THEN 0
         ELSE Cardinality({<<p, j>> \in (1..Len(pdf.pages)) \X (1..MaxDocLines) :
                             /\ p < page_no
                             /\ j <= Len(PageLines(p))
                             /\ IsStart(PageLines(p)[j])}))
        + (IF pc = "block" THEN blk_no - 1 ELSE 0)

\* the blocks held start with a line of the page that IsStart holds of, one
\* block per such line scanned; no other line opens a block
BlocksStartAt(IsStart(_)) ==
    pc \in {"line", "block"} =>
        LET scanned == SubSeq(lines, 1, line_no - 1)
            starts == SelectSeq(scanned, IsStart)
        IN  /\ Len(block_accum) = Len(starts)
            /\ \A k \in 1..Len(block_accum) : BeginsWith(block_accum[k], starts[k])

\* C1 (as written): a record is emitted only for a block whose first line
\* starts with a serial number followed by an identifier code; every other
\* line or block is dropped and produces no record.
C1_SerialIdAnchor ==
    /\ BlocksStartAt(StartsWithSerialId)
    /\ RowsSoFar(StartsWithSerialId)

\* C1 (amended): a record is emitted only for a block whose first line
\* holds an identifier-like token (5+ capitals/digits between word
\* boundaries), with or without a serial number before it; the lines before
\* the first such line of a page are dropped, and a page without such a
\* line produces no record.
C1_EpicAnchor ==
    /\ BlocksStartAt(IsAnchorLine)
    /\ RowsSoFar(IsAnchorLine)
    /\ (pc = "block" /\ NumAnchors(lines) = 0) => (block_accum = <<>>)

\* C1 witness: a page whose first line is no anchor and is dropped, whose
\* second line carries an identifier without a serial and has yielded a
\* record
C1_Witness ==
    /\ pc = "block"
    /\ Len(lines) >= 2
    /\ ~IsAnchorLine(lines[1])
    /\ IsAnchorLine(lines[2]) /\ ~StartsWithSerialId(lines[2])
    /\ blk_no = 2
    /\ Len(rows) = 1

\* the page holds exactly one anchor line
OneAnchor == pc = "block" /\ NumAnchors(lines) = 1
TheAnchor == NextIdx(lines, 1, IsAnchorLine)

\* C2 (as written): with exactly one anchor line on the page there is one
\* block, the anchor line and the following lines up to a cap on the number
\* of lines of a block that is below the number of lines a page may hold.
C2_CappedBlock ==
    OneAnchor =>
        \E cap \in 1..(MaxDocLines - 1) :
            block_accum =
                <<Join(SubSeq(lines, TheAnchor,
                              IF TheAnchor + cap - 1 < Len(lines)
                              THEN TheAnchor + cap - 1 ELSE Len(lines)))>>

\* C2 (amended): with exactly one anchor line on the page there is exactly
\* one block, the anchor line followed by all the following lines of the
\* page in order, joined by single spaces; no cap applies.
C2_WholeTail ==
    OneAnchor => block_accum = <<Join(SubSeq(lines, TheAnchor, Len(lines)))>>

\* C2 witness: one anchor line followed by two more lines, all in one block
C2_Witness ==
    /\ OneAnchor
    /\ Len(lines) >= TheAnchor + 2
    /\ Len(block_accum) = 1
    /\ Len(block_accum[1]) > Len(lines[TheAnchor])

\* C10: the records returned correspond one to one, in order, to the anchor
\* lines of the document in page order then line order; every non-anchor
\* line belongs to the block of the nearest preceding anchor line of its
\* page, and to no block when there is none; no block spans two pages.
C10_OneRecordPerAnchor ==
    /\ pc = "block" => block_accum = ExpectedBlocks(lines)
    /\ pc = "done" => rows = ExpectedRowsFrom(1, header_meta)

\* C10 witness: a two-page document with an anchor line on each page, the
\* second page starting with a non-anchor line, that returned two or more
\* records
C10_Witness ==
    /\ pc = "done"
    /\ Len(pdf.pages) = 2
    /\ NumAnchors(PageLines(1)) >= 1
    /\ Len(PageLines(2)) >= 2 /\ ~IsAnchorLine(PageLines(2)[1])
    /\ NumAnchors(PageLines(2)) >= 1
    /\ Len(rows) >= 2
(* ===================== properties of parse_voter_block ================ *)
\* a block has just been parsed: the block and the record it gave
Parsed == pc = "block" /\ blk_no > 1 /\ rows # <<>>
LastBlk == block_accum[blk_no - 1]
LastRow == rows[Len(rows)]

UNKNOWN == <<85, 110, 107, 110, 111, 119, 110>>                 \* "Unknown"
GenderTable == {G_M, G_F, G_PURUSH, G_MAHILA, G_STRI}

C5_Desplit ==
    (Parsed /\ \E k \in 1..(Len(EPIC) - 1) : LastBlk = SplitLine(k)) =>
        /\ LastRow.epic = EPIC
        /\ LastRow.serial = SERIAL

\* the relation keywords, and the father-class ones
RelationKeys == {RELATION_TYPE_MAP[n][1] : n \in 1..Len(RELATION_TYPE_MAP)}
FatherKeys == {RELATION_TYPE_MAP[n][1] : n \in {m \in 1..Len(RELATION_TYPE_MAP) :
                                                  RELATION_TYPE_MAP[m][2] = FATHER}}
HasKey(blk, keys) == \E key \in keys : Contains(Upper(blk), Upper(key))
\* the block with a relation line added at its end
WithLabel(blk) == {blk \o <<32>> \o l : l \in {F_SO, F_PITA, F_WO}}
OtherFields(r) == <<r.serial, r.epic, r.name, r.house, r.age, r.gender>>

\* C7: a block without relation label yields no relation type (None stands
\* for Unknown) and no relation name, and its other fields are those of
\* the same block with a relation label present.
C7_NoLabel ==
    (Parsed /\ ~HasKey(LastBlk, RelationKeys)) =>
        /\ LastRow.relation_type = None
        /\ LastRow.relation_name = None
        /\ \A b \in WithLabel(LastBlk) :
             OtherFields(parse_voter_block(b, header_meta, pdf.path)) = OtherFields(LastRow)

\* C8: a block holding a father-class keyword, in either script, is
\* classified Father whatever other relation keyword it holds.
C8_FatherFirst ==
    (Parsed /\ HasKey(LastBlk, FatherKeys)) => LastRow.relation_type = FATHER

\* the first of the numbers cands within the voter-age bound, None if none
RECURSIVE FirstInBound(_)
FirstInBound(cands) ==
    IF cands = <<>> THEN None
    ELSE IF 17 < ToInt(Head(cands)) /\ ToInt(Head(cands)) < 121 THEN Head(cands)
    ELSE FirstInBound(Tail(cands))
\* the 1-3 digit numbers standing alone in the de-split block, in order
AgeCandidates(blk) ==
    FindAll(<<WB, One(49..57), Cls(48..57, 0, 2), WB>>, Desplit(blk), 1, 2, 3)

\* C9: Age is the first 1-3 digit number of the block within the voter-age
\* bound, a 3-digit one included, and is empty only when there is none.
C9_FirstAgeInBound == Parsed => LastRow.age = FirstInBound(AgeCandidates(LastBlk))
(* ================== properties of extract_header_metadata ============= *)
HeaderResolved == pc # "header" /\ pdf.pages # <<>>
FirstPageLines == StripLines(TextOr(pdf.pages[1]))
\* no line reads <number> - <name>
NoConstituencyLine ==
    \A i \in 1..Len(FirstPageLines) : Search(VIDHAN_REGEX, FirstPageLines[i], 1) = NoMatch
IndexOf(ls, l) == NextIdx(ls, 1, LAMBDA x : x = l)
BIHAR == <<66, 105, 104, 97, 114>>                              \* "Bihar"

RECURSIVE SeqToBag(_)
SeqToBag(q) == IF q = <<>> THEN EmptyBag ELSE SetToBag({Head(q)}) (+) SeqToBag(Tail(q))

\* C3: whatever the order in which a document's pages and blocks are
\* processed once its header is resolved, and however the steps of two
\* documents interleave, each document's records are those of processing
\* it alone, page by page and block by block.
C3_OrderIndependent ==
    \A d \in 1..2 : wpc[d] = "done" => out[d] = SeqToBag(extract_from_pdf(docs[d]))

\* C3 witness: both documents done, the first of two pages with text, the
\* documents' headers different, records emitted for both
C3_Witness ==
    /\ wpc = <<"done", "done">>
    /\ Len(docs[1].pages) = 2
    /\ docs[1].pages[1] = PAGE_B /\ docs[1].pages[2] = PAGE_A
    /\ hdr[1] # hdr[2]
    /\ out[1] # EmptyBag /\ out[2] # EmptyBag
=============================================================================
